---- MODULE Spec2Model ----
(***************************************************************************)
(* Model of src/bilibili_mcp.js: the bounded task pool simplePool and its  *)
(* single use site, BilibiliMCPServer.generateMarkdownResponse.            *)
(*                                                                         *)
(* JavaScript runs one job at a time.  A step of the model is one such     *)
(* job: a call of the scheduling function returned by simplePool, the      *)
(* settling of the promise a task's fn returned, or one promise reaction   *)
(* job taken from the head of the microtask queue.  The jobs are written   *)
(* as operators from state to state (a state is the record State of the    *)
(* variables) and the actions apply them.                                  *)
(*                                                                         *)
(* Tasks are asynchronous operations: fn returns a promise (the only       *)
(* caller passes an async function), which later fulfils or rejects.       *)
(*                                                                         *)
(* Spec is a client that makes a pool and submits tasks to it at any time; *)
(* its tasks may complete between any two reaction jobs.  GmrSpec is one   *)
(* call of generateMarkdownResponse; its tasks complete in callbacks of    *)
(* the event loop, each followed by a run of every queued reaction job.    *)
(***************************************************************************)
EXTENDS Integers, Sequences, FiniteSets

\* ------------------------------------------------------------------ bounds
MaxTasks == 4       \* tasks a caller of the pool submits
MaxLimit == 3       \* largest concurrency given to simplePool by that caller
MaxComments == 6    \* comments of one page (hots and replies together)
LiveTasks == 3      \* tasks submitted where progress is checked
LiveLimit == 2      \* largest concurrency where progress is checked

\* -------------------------------------------------------- program constants
ReplyPoolLimit == 5 \* simplePool(5) in generateMarkdownResponse

VARIABLES
    caller,         \* who drives the pool: "client" or "generateMarkdownResponse"
    concurrency,    \* simplePool's parameter
    queue,          \* simplePool's queue: the tasks not yet started, oldest first
    activeCount,    \* simplePool's activeCount
    fnPromise,      \* per task: the promise task.fn() returned
    future,         \* per task: the promise schedule returned
    microtasks,     \* the engine's queue of promise reaction jobs
    submissions,    \* history: the tasks in the order schedule was called
    startOrder,     \* history: the tasks in the order their fn was invoked
    startedBy,      \* history: per task, the caller of runTask's processQueue
    settleCalls,    \* history: per task, calls of task.resolve / task.reject
    finallyRuns,    \* history: per task, runs of the finally callback
    answered,       \* history: per task, how the reply endpoint answered
    allComments,    \* generateMarkdownResponse: hots followed by replies
    includeReplies, \* generateMarkdownResponse: its parameter
    pc,             \* generateMarkdownResponse: where the call is
    promiseAll,     \* generateMarkdownResponse: the promise Promise.all returned
    allReplies,     \* generateMarkdownResponse: the value its await produced
    md              \* generateMarkdownResponse: the rendered comment blocks

vars == <<caller, concurrency, queue, activeCount, fnPromise, future, microtasks,
          submissions, startOrder, startedBy, settleCalls, finallyRuns, answered,
          allComments, includeReplies, pc, promiseAll, allReplies, md>>

\* What a call leaves as it found it: the caller and the call's arguments.
inputVars == <<caller, allComments, includeReplies>>

Max(a, b) == IF a >= b THEN a ELSE b

Min(a, b) == IF a <= b THEN a ELSE b

\* Task identities: a task is the {fn, resolve, reject} record of one schedule call.
Ids == 1 .. Max(MaxTasks, MaxComments)

\* ------------------------------------------------------- JavaScript values
Undefined == [type |-> "undefined", str |-> "", num |-> 0, items |-> <<>>]

Num(n) == [type |-> "number", str |-> "", num |-> n, items |-> <<>>]

Str(s) == [type |-> "string", str |-> s, num |-> 0, items |-> <<>>]

Arr(xs) == [type |-> "array", str |-> "", num |-> 0, items |-> xs]

\* An Error object; num tells the errors of different tasks apart.
Err(msg, n) == [type |-> "error", str |-> msg, num |-> n, items |-> <<>>]

\* JavaScript's ToBoolean, as `x || y` applies it.
Truthy(v) ==
    CASE v.type = "undefined" -> FALSE
      [] v.type = "number" -> v.num # 0
      [] v.type = "string" -> v.str # ""
      [] OTHER -> TRUE

\* ---------------------------------------------------------------- promises
Pending == [state |-> "pending", val |-> Undefined]

NotCreated == [state |-> "none", val |-> Undefined]

Fulfilled(v) == [state |-> "fulfilled", val |-> v]

Rejected(e) == [state |-> "rejected", val |-> e]

Settled(p) == p.state \in {"fulfilled", "rejected"}

\* resolve / reject of a promise's executor: only a pending promise changes.
Settle(p, outcome) == IF p.state = "pending" THEN outcome ELSE p

\* A promise callback that is absent or did not call resolve / reject.
NoCall == NotCreated

Range(s) == {s[k] : k \in 1 .. Len(s)}

\* ------------------------------------------------------------------- state
State ==
    [concurrency |-> concurrency, queue |-> queue, activeCount |-> activeCount,
     fnPromise |-> fnPromise, future |-> future, microtasks |-> microtasks,
     submissions |-> submissions, startOrder |-> startOrder,
     startedBy |-> startedBy, settleCalls |-> settleCalls,
     finallyRuns |-> finallyRuns, answered |-> answered, pc |-> pc,
     promiseAll |-> promiseAll, allReplies |-> allReplies, md |-> md]

\* The step to the state T a job leaves behind.
StepTo(T) ==
    /\ concurrency' = T.concurrency
    /\ queue' = T.queue
    /\ activeCount' = T.activeCount
    /\ fnPromise' = T.fnPromise
    /\ future' = T.future
    /\ microtasks' = T.microtasks
    /\ submissions' = T.submissions
    /\ startOrder' = T.startOrder
    /\ startedBy' = T.startedBy
    /\ settleCalls' = T.settleCalls
    /\ finallyRuns' = T.finallyRuns
    /\ answered' = T.answered
    /\ pc' = T.pc
    /\ promiseAll' = T.promiseAll
    /\ allReplies' = T.allReplies
    /\ md' = T.md
    /\ UNCHANGED inputVars

\* S is computed once, then stepped to.
Apply(S) == \E T \in {S} : StepTo(T)

\* A reaction job is queued behind the jobs already waiting.
Enqueue(S, job) == [S EXCEPT !.microtasks = Append(@, job)]

\* -------------------------------------------------------------- simplePool
\* The closure state of one pool.  started and submitted log, for the job
\* that is running, the tasks whose fn it invoked and the tasks it enqueued.
SimplePool(c) ==
    [concurrency |-> c, queue |-> <<>>, activeCount |-> 0,
     started |-> <<>>, submitted |-> <<>>]

\* runTask's synchronous part: activeCount++, task.fn() is invoked and the
\* then / catch / finally chain is attached to the promise it returns.
RunTask(p, task) ==
    [p EXCEPT !.activeCount = @ + 1, !.started = Append(@, task)]

\* processQueue that admits a task while activeCount equals the limit.
ProcessQueueAtLimit(p) ==
    IF p.activeCount <= p.concurrency /\ Len(p.queue) > 0
    THEN RunTask([p EXCEPT !.queue = Tail(@)], Head(p.queue))
    ELSE p

\* processQueue that takes the newest task of the queue (pop for shift).
ProcessQueuePop(p) ==
    IF p.activeCount < p.concurrency /\ Len(p.queue) > 0
    THEN RunTask([p EXCEPT !.queue = SubSeq(@, 1, Len(@) - 1)],
                 p.queue[Len(p.queue)])
    ELSE p

\* processQueue that keeps one slot unused.
ProcessQueueOneShort(p) ==
    IF p.activeCount + 1 < p.concurrency /\ Len(p.queue) > 0
    THEN RunTask([p EXCEPT !.queue = Tail(@)], Head(p.queue))
    ELSE p

ProcessQueue(p) ==
    IF p.activeCount < p.concurrency /\ Len(p.queue) > 0
    THEN RunTask([p EXCEPT !.queue = Tail(@)], Head(p.queue))
    ELSE p

\* A scheduling function that enqueues and leaves the start to a completion.
ScheduleNoAdvance(p, task) ==
    [p EXCEPT !.queue = Append(@, task), !.submitted = Append(@, task)]

\* The function simplePool returns, applied to a task: the executor of the
\* new promise pushes {fn, resolve, reject} and calls processQueue.
Schedule(p, task) ==
    ProcessQueue([p EXCEPT !.queue = Append(@, task),
                           !.submitted = Append(@, task)])

\* A finally callback that frees the slot and starts nothing.
OnFinallyNoAdvance(p) == [p EXCEPT !.activeCount = @ - 1]

\* A finally callback that starts the next task and frees no slot.
OnFinallyNoDecrement(p) == ProcessQueue(p)

\* The callback given to finally.
OnFinally(p) == ProcessQueue([p EXCEPT !.activeCount = @ - 1])

NextStage(stage) == IF stage = "then" THEN "catch" ELSE "finally"

\* One reaction job of the chain
\*   task.fn().then(res => task.resolve(res))
\*            .catch(err => task.reject(err))
\*            .finally(() => { activeCount--; processQueue(); })
\* given the outcome of the promise the stage was attached to:
\*   call    - the resolve / reject call made on the task's future, if any
\*   derived - the outcome of the promise the stage returned
\*   release - whether activeCount-- and processQueue() run
ReactionStep(call, derived, release) ==
    [call |-> call, derived |-> derived, release |-> release]

\* The chain with the bookkeeping in the then callback:
\*   .then(res => { task.resolve(res); activeCount--; processQueue(); })
\*   .catch(err => task.reject(err))
ReactionReleaseInThen(stage, outcome) ==
    CASE stage = "then" ->
           IF outcome.state = "fulfilled"
           THEN ReactionStep(Fulfilled(outcome.val), Fulfilled(Undefined), TRUE)
           ELSE ReactionStep(NoCall, outcome, FALSE)
      [] stage = "catch" ->
           IF outcome.state = "rejected"
           THEN ReactionStep(Rejected(outcome.val), Fulfilled(Undefined), FALSE)
           ELSE ReactionStep(NoCall, outcome, FALSE)
      [] OTHER -> ReactionStep(NoCall, outcome, FALSE)

\* The chain whose catch callback calls task.resolve(err).
ReactionResolveInCatch(stage, outcome) ==
    CASE stage = "then" ->
           IF outcome.state = "fulfilled"
           THEN ReactionStep(Fulfilled(outcome.val), Fulfilled(Undefined), FALSE)
           ELSE ReactionStep(NoCall, outcome, FALSE)
      [] stage = "catch" ->
           IF outcome.state = "rejected"
           THEN ReactionStep(Fulfilled(outcome.val), Fulfilled(Undefined), FALSE)
           ELSE ReactionStep(NoCall, outcome, FALSE)
      [] OTHER -> ReactionStep(NoCall, outcome, TRUE)

Reaction(stage, outcome) ==
    CASE stage = "then" ->
           IF outcome.state = "fulfilled"
           THEN ReactionStep(Fulfilled(outcome.val), Fulfilled(Undefined), FALSE)
           ELSE ReactionStep(NoCall, outcome, FALSE)
      [] stage = "catch" ->
           IF outcome.state = "rejected"
           THEN ReactionStep(Rejected(outcome.val), Fulfilled(Undefined), FALSE)
           ELSE ReactionStep(NoCall, outcome, FALSE)
      [] OTHER -> ReactionStep(NoCall, outcome, TRUE)

\* The pool as the state holds it, at the start of a job.
PoolOf(S) ==
    [concurrency |-> S.concurrency, queue |-> S.queue,
     activeCount |-> S.activeCount, started |-> <<>>, submitted |-> <<>>]

\* The state with the pool a job left behind; by names the job for the history.
Commit(S, p, by) ==
    [S EXCEPT !.concurrency = p.concurrency,
              !.queue = p.queue,
              !.activeCount = p.activeCount,
              !.fnPromise = [t \in Ids |-> IF t \in Range(p.started) THEN Pending
                                           ELSE @[t]],
              !.submissions = @ \o p.submitted,
              !.startOrder = @ \o p.started,
              !.startedBy = [t \in Ids |-> IF t \in Range(p.started) THEN by
                                           ELSE @[t]]]

\* The promise a task's fn returned settles: its then-reaction is queued.
SettleFn(S, task, outcome) ==
    Enqueue([S EXCEPT !.fnPromise[task] = outcome],
            [task |-> task, stage |-> "then", outcome |-> outcome])

\* task.resolve / task.reject is called.  A future that settles queues the
\* reaction Promise.all attached to it, when it is an element of one.
CallSettle(S, task, call) ==
    LET before == S.future[task]
        S1 == [S EXCEPT !.future[task] = Settle(before, call),
                        !.settleCalls[task] = @ + 1]
    IN IF before.state = "pending" /\ S.promiseAll.state # "none"
       THEN Enqueue(S1, [task |-> task, stage |-> "all", outcome |-> call])
       ELSE S1

\* A reaction job of a task's then / catch / finally chain.
RunChainJob(S, job) ==
    LET r == Reaction(job.stage, job.outcome)
        S1 == IF r.call.state # "none" THEN CallSettle(S, job.task, r.call) ELSE S
        S2 == IF r.release
              THEN [Commit(S1, OnFinally(PoolOf(S1)), "finally")
                       EXCEPT !.finallyRuns[job.task] = @ + 1]
              ELSE S1
    IN IF job.stage = "finally" THEN S2
       ELSE Enqueue(S2, [task |-> job.task, stage |-> NextStage(job.stage),
                         outcome |-> r.derived])

\* ------------------------------------------------- generateMarkdownResponse
\* What the reply endpoint can answer to axiosInstance.get for one comment:
\* code 0 with replies, code 0 with data.replies null, an API error code, or
\* no answer at all (axios throws: network error, or the 8000 ms timeout).
NetOutcomes ==
    {[kind |-> "response", code |-> 0, replies |-> TRUE],
     [kind |-> "response", code |-> 0, replies |-> FALSE],
     [kind |-> "response", code |-> -404, replies |-> FALSE],
     [kind |-> "error", code |-> 0, replies |-> FALSE]}

\* The replies the endpoint holds under the comment root: each reply is
\* written as the rpid of its root.
RepliesOf(root) == <<root>>

\* fetchReplies with a catch block that throws the error on.
FetchRepliesRethrow(parentRpid, net) ==
    IF net.kind = "response"
    THEN IF net.code = 0 /\ net.replies
         THEN Fulfilled(Arr(RepliesOf(parentRpid)))
         ELSE Fulfilled(Arr(<<>>))
    ELSE Rejected(Err("network error", parentRpid))

\* BilibiliAPI.fetchReplies(oid, parentRpid, cookie, videoId) as the outcome
\* of the promise the async function returns.
FetchReplies(parentRpid, net) ==
    IF net.kind = "response"
    THEN IF net.code = 0 /\ net.replies
         THEN Fulfilled(Arr(RepliesOf(parentRpid)))
         ELSE Fulfilled(Arr(<<>>))
    ELSE Fulfilled(Str("fetch_failed"))

\* The comments of a page: rpid is the comment's place on the page, rcount
\* the number of replies the platform reports under it.
RCounts == {0, 2}

Pages == UNION {[1 .. n -> RCounts] : n \in 0 .. MaxComments}

CommentsOf(page) ==
    [i \in 1 .. Len(page) |-> [rpid |-> i, rcount |-> page[i]]]

\* A map callback that leaves rcount out of account.
NeedsFetchAnyComment(comments, incl, i) == incl

\* Whether the map callback of replyTasks hands comment i to the pool.
NeedsFetch(comments, incl, i) == incl /\ comments[i].rcount > 0

\* allComments.map(comment => ... limit(() => fetchReplies(...)) ...), from
\* comment i on: the pool after the schedule calls it makes.
RECURSIVE SubmitReplyTasks(_, _, _, _)
SubmitReplyTasks(p, comments, incl, i) ==
    IF i > Len(comments) THEN p
    ELSE SubmitReplyTasks(IF NeedsFetch(comments, incl, i) THEN Schedule(p, i) ELSE p,
                          comments, incl, i + 1)

\* The elements of replyTasks: the pool's future for a comment handed to it,
\* Promise.resolve([]) for the others.
ReplyTasks(comments, incl) ==
    [t \in Ids |-> IF t > Len(comments) THEN NotCreated
                   ELSE IF NeedsFetch(comments, incl, t) THEN Pending
                        ELSE Fulfilled(Arr(<<>>))]

NoPromiseAll == [state |-> "none", remaining |-> 0, values |-> <<>>]

\* Promise.all(promises) over n elements: the new promise, and the reaction
\* jobs of the elements that are settled already, in index order.
PromiseAll(S, promises, n) ==
    LET jobs == [i \in 1 .. n |-> [task |-> i, stage |-> "all",
                                   outcome |-> promises[i]]]
        IsSettled(job) == Settled(job.outcome)
    IN [S EXCEPT !.promiseAll = [state |-> "pending", remaining |-> n,
                                 values |-> [i \in 1 .. n |-> Undefined]],
                 !.microtasks = @ \o SelectSeq(jobs, IsSettled)]

\* The reaction Promise.all attached to element job.task: a rejection rejects
\* the promise at once; a value is stored at the element's index, and the
\* last one fulfils the promise.  Either wakes the awaiting call.
AllElementJob(S, job) ==
    LET all == S.promiseAll
        wake == [task |-> job.task, stage |-> "resume", outcome |-> job.outcome]
    IN IF all.state # "pending" THEN S
       ELSE IF job.outcome.state = "rejected"
       THEN Enqueue([S EXCEPT !.promiseAll.state = "rejected"], wake)
       ELSE LET stored == [all EXCEPT !.values[job.task] = job.outcome.val,
                                      !.remaining = @ - 1]
            IN IF stored.remaining = 0
               THEN Enqueue([S EXCEPT !.promiseAll =
                                         [stored EXCEPT !.state = "fulfilled"]],
                            wake)
               ELSE [S EXCEPT !.promiseAll = stored]

\* replies: allReplies[index] || []
RepliesAt(replies, index) ==
    IF Truthy(replies[index]) THEN replies[index] ELSE Arr(<<>>)

\* formatCommentWithReplies(comment, replies): the block's reply section.
FormatCommentWithReplies(comment, replies) ==
    IF replies = Str("fetch_failed")
    THEN [rpid |-> comment.rpid, section |-> "load_failed", shown |-> <<>>, more |-> 0]
    ELSE IF Len(replies.items) > 0
         THEN [rpid |-> comment.rpid, section |-> "replies", shown |-> replies.items,
               more |-> IF comment.rcount > Len(replies.items)
                        THEN comment.rcount - Len(replies.items) ELSE 0]
         ELSE [rpid |-> comment.rpid, section |-> "none", shown |-> <<>>, more |-> 0]

\* generateMarkdownResponse up to its await: the early return for an empty
\* page, else a new pool, the replyTasks map and Promise.all(replyTasks).
GmrCall(S) ==
    IF Len(allComments) = 0
    THEN [S EXCEPT !.pc = "returned_empty"]
    ELSE LET limit == SubmitReplyTasks(SimplePool(ReplyPoolLimit), allComments,
                                       includeReplies, 1)
             replyTasks == ReplyTasks(allComments, includeReplies)
             S1 == [Commit(S, limit, "schedule") EXCEPT !.future = replyTasks,
                                                         !.pc = "awaiting"]
         IN PromiseAll(S1, replyTasks, Len(allComments))

\* generateMarkdownResponse after its await: the rejection is thrown, or
\* every comment is rendered with the replies at its index.
GmrResume(S) ==
    IF S.promiseAll.state = "rejected"
    THEN [S EXCEPT !.pc = "threw"]
    ELSE LET replies == S.promiseAll.values
         IN [S EXCEPT !.pc = "rendered",
                      !.allReplies = replies,
                      !.md = [i \in 1 .. Len(allComments) |->
                                FormatCommentWithReplies(allComments[i],
                                                         RepliesAt(replies, i))]]

\* ------------------------------------------------------------ the job queue
\* The engine runs the reaction job at the head of the microtask queue.
RunJob(S) ==
    LET job == Head(S.microtasks)
        S0 == [S EXCEPT !.microtasks = Tail(@)]
    IN CASE job.stage = "all" -> AllElementJob(S0, job)
         [] job.stage = "resume" -> GmrResume(S0)
         [] OTHER -> RunChainJob(S0, job)

\* A microtask checkpoint: the engine runs reaction jobs until none is left.
RECURSIVE Drain(_)
Drain(S) == IF S.microtasks = <<>> THEN S ELSE Drain(RunJob(S))

\* ---------------------------------------------------------------- actions
\* The outcomes of a client's task: it produces its own index, or fails with
\* its own error.
TaskOutcomes(task) == {Fulfilled(Num(task)), Rejected(Err("network error", task))}

\* A client calls the scheduling function with its next task, of at most n;
\* it may do so at any time, also between two reaction jobs.
ClientSchedulesUpTo(n) ==
    /\ caller = "client"
    /\ Len(submissions) < n
    /\ LET task == Len(submissions) + 1
       IN Apply([Commit(State, Schedule(PoolOf(State), task), "schedule")
                    EXCEPT !.future[task] = Pending])

ClientSchedules == ClientSchedulesUpTo(MaxTasks)

\* A running task's asynchronous operation completes; a client's tasks may
\* complete at any time, also between two reaction jobs.
TaskSettles(task) ==
    /\ caller = "client"
    /\ fnPromise[task].state = "pending"
    /\ \E outcome \in TaskOutcomes(task) : Apply(SettleFn(State, task, outcome))

RunMicrotask ==
    /\ caller = "client"
    /\ microtasks # <<>>
    /\ Apply(RunJob(State))

\* generateMarkdownResponse is called, and the engine runs the jobs it queued.
GmrStart ==
    /\ caller = "generateMarkdownResponse"
    /\ pc = "start"
    /\ Apply(Drain(GmrCall(State)))

\* The reply endpoint answers, or fails to answer, the request for a comment.
\* This happens in an I/O or timer callback of the event loop, which runs
\* every queued reaction job before it takes the next callback.
FetchSettles(task) ==
    /\ caller = "generateMarkdownResponse"
    /\ fnPromise[task].state = "pending"
    /\ \E net \in NetOutcomes :
          Apply(Drain(SettleFn([State EXCEPT !.answered[task] = net.kind], task,
                               FetchReplies(allComments[task].rpid, net))))

NoPromises == [t \in Ids |-> NotCreated]

Zeros == [t \in Ids |-> 0]

\* No pool exists yet, or the pool simplePool(c) has just returned.
InitPool(c) ==
    /\ concurrency = c
    /\ queue = <<>>
    /\ activeCount = 0
    /\ fnPromise = NoPromises
    /\ future = NoPromises
    /\ microtasks = <<>>
    /\ submissions = <<>>
    /\ startOrder = <<>>
    /\ startedBy = [t \in Ids |-> "none"]
    /\ settleCalls = Zeros
    /\ finallyRuns = Zeros
    /\ answered = [t \in Ids |-> "none"]
    /\ promiseAll = NoPromiseAll
    /\ allReplies = <<>>
    /\ md = <<>>

\* A client that made a pool of a limit up to maxLimit and submits tasks to it.
ClientInit(maxLimit) ==
    /\ caller = "client"
    /\ \E c \in 0 .. maxLimit : InitPool(c)
    /\ allComments = <<>>
    /\ includeReplies = FALSE
    /\ pc = "none"

Init == ClientInit(MaxLimit)

Next ==
    \/ ClientSchedules
    \/ \E task \in Ids : TaskSettles(task)
    \/ RunMicrotask

Spec == Init /\ [][Next]_vars

\* One call of generateMarkdownResponse on some page of comments.
GmrInit ==
    /\ caller = "generateMarkdownResponse"
    /\ InitPool(0)
    /\ \E page \in Pages : allComments = CommentsOf(page)
    /\ includeReplies \in BOOLEAN
    /\ pc = "start"

GmrNext ==
    \/ GmrStart
    \/ \E task \in Ids : FetchSettles(task)

GmrSpec == GmrInit /\ [][GmrNext]_vars

\* A step that some started task or queued reaction job takes.
Progress ==
    \/ \E task \in Ids : TaskSettles(task)
    \/ RunMicrotask

LiveInit == ClientInit(LiveLimit)

LiveNext ==
    \/ ClientSchedulesUpTo(LiveTasks)
    \/ \E task \in Ids : TaskSettles(task)
    \/ RunMicrotask

\* A client's pool under the scheduling the claims of progress assume: the
\* engine runs the queued reaction jobs and started tasks complete, so the
\* pool is not left for ever with a job or a completion outstanding.
LiveSpec == LiveInit /\ [][LiveNext]_vars /\ WF_vars(Progress)

\* ------------------------------------------------------------------ claims
Started(t) == fnPromise[t].state # "none"

Submitted == Range(submissions)

\* Nothing is running or queued to run: no task's operation is outstanding
\* and no reaction job waits.
Quiescent ==
    /\ microtasks = <<>>
    /\ \A t \in Ids : fnPromise[t].state # "pending"

StartedUnsettled == {t \in Ids : Started(t) /\ future[t].state = "pending"}

\* C1: with a limit L >= 1 the tasks started and not yet settled never number
\* more than L, activeCount never exceeds L, and with L = 1 a task is started
\* only when the future of the task started before it has settled.
LimitRespected ==
    concurrency >= 1 =>
        /\ activeCount <= concurrency
        /\ Cardinality(StartedUnsettled) <= concurrency
        /\ concurrency = 1 =>
              \A k \in 2 .. Len(startOrder) : Settled(future[startOrder[k - 1]])

LimitReached ==
    /\ concurrency = 2
    /\ Cardinality(StartedUnsettled) = 2
    /\ queue # <<>>
    /\ \E t \in Ids : finallyRuns[t] = 1

\* C2: tasks are started in the order they were submitted: the start order
\* is an initial part of the submission order, and the queue is the rest.
FifoStart ==
    /\ Len(startOrder) <= Len(submissions)
    /\ \A k \in 1 .. Len(startOrder) : startOrder[k] = submissions[k]
    /\ startOrder \o queue = submissions

FifoStartSeen ==
    /\ Len(startOrder) >= 3
    /\ Len(queue) >= 1
    /\ \E t \in Ids : startedBy[t] = "finally"

\* C3: a failing task touches no other task's future: a settled future holds
\* the outcome of its own task whatever its siblings did, and when nothing is
\* running any more (L >= 1) every submitted task was started and its future
\* has settled.
FailureIsolated ==
    /\ \A t \in Ids : Settled(future[t]) => future[t] = fnPromise[t]
    /\ (concurrency >= 1 /\ Quiescent) =>
          /\ queue = <<>>
          /\ \A t \in Submitted : Started(t) /\ Settled(future[t])

SiblingOfFailureServed ==
    /\ concurrency = 1
    /\ Quiescent
    /\ Len(submissions) >= 3
    /\ future[1].state = "rejected"
    /\ future[2].state = "fulfilled"
    /\ future[3].state = "fulfilled"

\* C4: the future schedule returned is settled by exactly one resolve / reject
\* call, made after its task was started and completed, and holds that task's
\* outcome: its value when it succeeded, its reason when it failed.
FutureOwnOutcome ==
    \A t \in Ids :
        /\ settleCalls[t] <= 1
        /\ settleCalls[t] = 1 <=> Settled(future[t])
        /\ Settled(future[t]) =>
              /\ Settled(fnPromise[t])
              /\ future[t].state = fnPromise[t].state
              /\ future[t].val = fnPromise[t].val
        /\ future[t].state = "fulfilled" => future[t].val = Num(t)
        /\ future[t].state = "rejected" => future[t].val = Err("network error", t)

BothOutcomesSeen ==
    \E a, b \in Ids :
        /\ future[a].state = "fulfilled" /\ settleCalls[a] = 1
        /\ future[b].state = "rejected" /\ settleCalls[b] = 1
        /\ a > b

\* C5: with a limit L >= 1, every task submitted is eventually started and
\* its future eventually settles, when every started task completes: again
\* and again every task submitted so far has been started and has settled.
NoStarvation ==
    []<>(concurrency >= 1 =>
            \A t \in Submitted : Started(t) /\ Settled(future[t]))

AllServed ==
    /\ concurrency = 2
    /\ Len(submissions) = LiveTasks
    /\ \A t \in Submitted : future[t] = Fulfilled(Num(t))
    /\ \E t \in Ids : startedBy[t] = "finally"

\* C6: as long as no task has completed, the first min(L, T) of the T tasks
\* submitted were started by their own schedule call and the others wait in
\* the queue; and whenever L >= T no task ever waits.
ImmediateStart ==
    /\ (\A t \in Ids : finallyRuns[t] = 0) =>
          /\ startOrder = SubSeq(submissions, 1, Min(concurrency, Len(submissions)))
          /\ queue = SubSeq(submissions, Min(concurrency, Len(submissions)) + 1,
                            Len(submissions))
          /\ \A t \in Range(startOrder) : startedBy[t] = "schedule"
    /\ concurrency >= Len(submissions) =>
          /\ queue = <<>>
          /\ \A t \in Submitted : startedBy[t] = "schedule"

BatchPartlyQueued ==
    /\ \A t \in Ids : finallyRuns[t] = 0
    /\ concurrency = 2
    /\ Len(submissions) = MaxTasks
    /\ Len(queue) = MaxTasks - 2

\* C7: activeCount is the number of started tasks whose finally callback has
\* not run; the callback runs at most once per task, after the task's future
\* settled, for a failure as for a success; and once nothing is running
\* activeCount is 0 again.
SlotsNeverLeak ==
    /\ activeCount = Cardinality({t \in Ids : Started(t) /\ finallyRuns[t] = 0})
    /\ \A t \in Ids :
          /\ finallyRuns[t] <= 1
          /\ finallyRuns[t] = 1 => Settled(future[t])
    /\ Quiescent => activeCount = 0 /\ \A t \in Ids : Started(t) => finallyRuns[t] = 1

FullAfterFailures ==
    /\ concurrency = 2
    /\ activeCount = 2
    /\ \A t \in {1, 2} : future[t].state = "rejected" /\ finallyRuns[t] = 1
    /\ \A t \in {3, 4} : fnPromise[t].state = "pending"

\* The advance of the algorithm as specified: while activeCount < limit and
\* the queue is non-empty, start the head of the queue.
RECURSIVE AdvanceLoop(_)
AdvanceLoop(p) ==
    IF p.activeCount < p.concurrency /\ Len(p.queue) > 0
    THEN AdvanceLoop(RunTask([p EXCEPT !.queue = Tail(@)], Head(p.queue)))
    ELSE p

\* C9: with a limit L >= 1, after every schedule call and every completion
\* handler no task waits while a slot is free, so the specified advance loop
\* would find nothing left to start.
WorkConserving ==
    concurrency >= 1 =>
        /\ ~(queue # <<>> /\ activeCount < concurrency)
        /\ AdvanceLoop(PoolOf(State)) = PoolOf(State)

QueueBehindFullPool ==
    /\ concurrency = 2
    /\ activeCount = 2
    /\ Len(queue) = 1
    /\ \E t \in Ids : startedBy[t] = "finally"
    /\ \E t \in Ids : finallyRuns[t] = 1 /\ future[t].state = "rejected"

\* The places on the page of the comments that have replies, in page order.
WithReplies ==
    LET HasReplies(i) == allComments[i].rcount > 0
    IN SelectSeq([i \in 1 .. Len(allComments) |-> i], HasReplies)

InFlight == {t \in Ids : fnPromise[t].state = "pending"}

\* C8: generateMarkdownResponse submits one reply fetch to a new pool of limit
\* 5 for each comment with rcount > 0 when includeReplies is true and none
\* otherwise, has at most 5 fetches in flight, and renders the comments only
\* when every element of replyTasks has settled.
OneFetchPerCommentWithReplies ==
    /\ pc = "start" => submissions = <<>>
    /\ pc # "start" => submissions = IF includeReplies THEN WithReplies ELSE <<>>
    /\ pc \in {"awaiting", "rendered", "threw"} => concurrency = ReplyPoolLimit
    /\ \A t \in Ids : Started(t) => t \in Submitted
    /\ Cardinality(InFlight) <= ReplyPoolLimit
    /\ activeCount <= ReplyPoolLimit
    /\ pc = "rendered" =>
          /\ \A i \in 1 .. Len(allComments) : Settled(future[i])
          /\ \A t \in Submitted : Settled(fnPromise[t])
          /\ Len(md) = Len(allComments)

SixthFetchWaited ==
    /\ pc = "rendered"
    /\ Len(submissions) = ReplyPoolLimit + 1
    /\ startedBy[submissions[ReplyPoolLimit + 1]] = "finally"
    /\ \A t \in Submitted : t <= ReplyPoolLimit => startedBy[t] = "schedule"

\* C10: a reply fetch never rejects, so the call never throws at its await; a
\* fetch the endpoint did not answer yields the load-failed notice under its
\* own comment and nowhere else, and every comment is rendered with the
\* result of the fetch issued for it.
RepliesUnderOwnComment ==
    /\ pc # "threw"
    /\ promiseAll.state # "rejected"
    /\ \A t \in Ids :
          /\ fnPromise[t].state # "rejected"
          /\ answered[t] = "error" => fnPromise[t] = Fulfilled(Str("fetch_failed"))
    /\ pc = "rendered" =>
          \A i \in 1 .. Len(allComments) :
             LET fetched == fnPromise[i].val
                 gotReplies == /\ fnPromise[i].state = "fulfilled"
                               /\ fetched.type = "array"
                               /\ Len(fetched.items) > 0
             IN /\ md[i].rpid = allComments[i].rpid
                /\ md[i].section = "load_failed" <=> answered[i] = "error"
                /\ md[i].section = "replies" <=> gotReplies
                /\ md[i].shown = IF gotReplies THEN fetched.items ELSE <<>>
                /\ \A k \in 1 .. Len(md[i].shown) : md[i].shown[k] = allComments[i].rpid

FailedFetchAmongReplies ==
    /\ pc = "rendered"
    /\ Len(allComments) = MaxComments
    /\ md[1].section = "replies"
    /\ md[2].section = "load_failed"
    /\ md[3].section = "none"
    /\ md[MaxComments].section = "replies"

====
